---------------------------- MODULE Spec2Model ----------------------------
(***************************************************************************)
(* A model of pywattbox (src/pywattbox/__init__.py): the WattBox object,   *)
(* its list of Switch objects, and the operations load_xml, _update,       *)
(* set_state and the name setter.                                          *)
(*                                                                         *)
(* Python values are encoded as sequences so that any two of them can be   *)
(* compared: None is <<>>, a str is the non-empty sequence of its          *)
(* characters, a bool kept in a field that may also hold None or a str is  *)
(* <<"True">> / <<"False">>, a number n is <<n>>, and the float x/10 is    *)
(* <<x \div 10, x % 10>> (integer part, tenths digit).                     *)
(***************************************************************************)
EXTENDS Integers, Sequences, FiniteSets

VARIABLES
    noop_set_state,     \* WattBox._noop_set_state (fixed at construction)
    hostname,           \* WattBox._hostname
    hardware_version,   \* WattBox._hardware_version
    serial_number,      \* WattBox._serial_number
    has_ups,            \* WattBox._has_ups
    voltage,            \* WattBox._voltage
    current,            \* WattBox._current
    power,              \* WattBox._power
    cloud_status,       \* WattBox._cloud_status
    last_updated,       \* WattBox._last_updated
    switches,           \* WattBox._switches, a list of Switch objects
    clock,              \* what mktime(localtime()) returns: whole seconds
    last,               \* observation: the call made by the latest step
    lastPoll,           \* observation: the latest bodiless _update that sent a GET
    loading,            \* the parse in progress, <<>> if none: what it still appends
    running,            \* the _update(xml_str) and set_state calls in progress
    serialized          \* whether the callers let no call start during another

vars == <<noop_set_state, hostname, hardware_version, serial_number, has_ups,
          voltage, current, power, cloud_status, last_updated, switches,
          clock, last, lastPoll, loading, running, serialized>>

(***************************************************************************)
(* Bounds of the model.                                                    *)
(***************************************************************************)
MaxSwitches == 2    \* load_xml is not called once it would pass this length
MaxClock == 6       \* the clock stops here

\* The debounce window of _update, in seconds.
DebounceSeconds == 3

(***************************************************************************)
(* Python values.                                                          *)
(***************************************************************************)
None == <<>>
PyTrue == <<"True">>
PyFalse == <<"False">>
PyBool(b) == IF b THEN PyTrue ELSE PyFalse

Digits == <<"0", "1", "2", "3", "4", "5", "6", "7", "8", "9">>

DigitVal(c) == (CHOOSE d \in 1..10 : Digits[d] = c) - 1

DigitSet == {Digits[d] : d \in 1..10}

IsDigit(c) == c \in DigitSet

\* The white space int() strips from both ends of an ASCII text (the
\* vertical tab, which it strips too, has no TLA+ string).  The texts of
\* the model are ASCII; digits of other scripts are outside it.
Whitespace == {" ", "\t", "\n", "\r", "\f"}

\* text.lstrip() and text.rstrip(), as int() does them.
RECURSIVE lstrip(_)
lstrip(text) ==
    IF Len(text) > 0 /\ text[1] \in Whitespace THEN lstrip(Tail(text)) ELSE text

RECURSIVE rstrip(_)
rstrip(text) ==
    IF Len(text) > 0 /\ text[Len(text)] \in Whitespace
    THEN rstrip(SubSeq(text, 1, Len(text) - 1)) ELSE text

strip(text) == rstrip(lstrip(text))

\* Whether the stripped text starts with a minus sign.
IsNegative(text) == LET s == strip(text) IN Len(s) > 0 /\ s[1] = "-"

\* What follows the sign of the stripped text, if it has one.
Magnitude(text) ==
    LET s == strip(text)
    IN IF Len(s) > 0 /\ s[1] \in {"+", "-"} THEN Tail(s) ELSE s

\* The digits of the text, in order.
DigitsOf(text) == SelectSeq(text, IsDigit)

\* sys.int_info.default_max_str_digits: int() raises ValueError for a text
\* of more digits.
IntMaxStrDigits == 4300

\* int(text) raises ValueError unless the text is a decimal numeral: white
\* space around it, a sign, then digits with single underscores between
\* them, not more than IntMaxStrDigits digits.
IsNumeral(text) ==
    IF Len(text) > 0 /\ \A j \in 1..Len(text) : text[j] \in DigitSet
    THEN Len(text) <= IntMaxStrDigits
    ELSE LET m == Magnitude(text)
         IN /\ Len(m) > 0
            /\ \A j \in 1..Len(m) : IsDigit(m[j]) \/ m[j] = "_"
            /\ IsDigit(m[1])
            /\ IsDigit(m[Len(m)])
            /\ \A j \in 1..(Len(m) - 1) : ~(m[j] = "_" /\ m[j + 1] = "_")
            /\ Len(DigitsOf(text)) <= IntMaxStrDigits

RECURSIVE int_digits(_)
int_digits(ds) ==
    IF Len(ds) = 0 THEN 0
    ELSE 10 * int_digits(SubSeq(ds, 1, Len(ds) - 1)) + DigitVal(ds[Len(ds)])

\* int(text) for a numeral.
int(text) ==
    LET x == int_digits(DigitsOf(text))
    IN IF IsNegative(text) THEN 0 - x ELSE x

\* The digits of the least int x for which x/10 raises OverflowError:
\* 10 * (2^1024 - 2^970), the least value that rounds to no float.
FloatOverflowFrom ==
    <<
      "1", "7", "9", "7", "6", "9", "3", "1", "3", "4", "8", "6",
      "2", "3", "1", "5", "8", "0", "7", "9", "3", "7", "2", "8",
      "9", "7", "1", "4", "0", "5", "3", "0", "3", "4", "1", "5",
      "0", "7", "9", "9", "3", "4", "1", "3", "2", "7", "1", "0",
      "0", "3", "7", "8", "2", "6", "9", "3", "6", "1", "7", "3",
      "7", "7", "8", "9", "8", "0", "4", "4", "4", "9", "6", "8",
      "2", "9", "2", "7", "6", "4", "7", "5", "0", "9", "4", "6",
      "6", "4", "9", "0", "1", "7", "9", "7", "7", "5", "8", "7",
      "2", "0", "7", "0", "9", "6", "3", "3", "0", "2", "8", "6",
      "4", "1", "6", "6", "9", "2", "8", "8", "7", "9", "1", "0",
      "9", "4", "6", "5", "5", "5", "5", "4", "7", "8", "5", "1",
      "9", "4", "0", "4", "0", "2", "6", "3", "0", "6", "5", "7",
      "4", "8", "8", "6", "7", "1", "5", "0", "5", "8", "2", "0",
      "6", "8", "1", "9", "0", "8", "9", "0", "2", "0", "0", "0",
      "7", "0", "8", "3", "8", "3", "6", "7", "6", "2", "7", "3",
      "8", "5", "4", "8", "4", "5", "8", "1", "7", "7", "1", "1",
      "5", "3", "1", "7", "6", "4", "4", "7", "5", "7", "3", "0",
      "2", "7", "0", "0", "6", "9", "8", "5", "5", "5", "7", "1",
      "3", "6", "6", "9", "5", "9", "6", "2", "2", "8", "4", "2",
      "9", "1", "4", "8", "1", "9", "8", "6", "0", "8", "3", "4",
      "9", "3", "6", "4", "7", "5", "2", "9", "2", "7", "1", "9",
      "0", "7", "4", "1", "6", "8", "4", "4", "4", "3", "6", "5",
      "5", "1", "0", "7", "0", "4", "3", "4", "2", "7", "1", "1",
      "5", "5", "9", "6", "9", "9", "5", "0", "8", "0", "9", "3",
      "0", "4", "2", "8", "8", "0", "1", "7", "7", "9", "0", "4",
      "1", "7", "4", "4", "9", "7", "7", "9", "2", "0"
    >>

\* The digits without the zeros in front.
RECURSIVE Significant(_)
Significant(ds) ==
    IF Len(ds) > 0 /\ ds[1] = "0" THEN Significant(Tail(ds)) ELSE ds

\* Whether int(text)/10 raises OverflowError, for a numeral.
DivTenOverflows(text) ==
    LET ds == Significant(DigitsOf(text))
        T == FloatOverflowFrom
    IN /\ Len(text) >= Len(T)
       /\ \/ Len(ds) > Len(T)
          \/ /\ Len(ds) = Len(T)
             /\ \/ ds = T
                \/ \E j \in 1..Len(T) :
                       /\ \A h \in 1..(j - 1) : ds[h] = T[h]
                       /\ DigitVal(ds[j]) > DigitVal(T[j])

\* str(n) / '%d' % n for n >= 0.
RECURSIVE str(_)
str(n) == IF n < 10 THEN <<Digits[n + 1]>>
          ELSE str(n \div 10) \o <<Digits[(n % 10) + 1]>>

\* text.split(sep) for a str text and a one-character separator.
RECURSIVE split(_, _)
split(text, sep) ==
    IF \A j \in 1..Len(text) : text[j] # sep THEN <<text>>
    ELSE LET p == CHOOSE j \in 1..Len(text) :
                      text[j] = sep /\ \A h \in 1..(j - 1) : text[h] # sep
         IN <<SubSeq(text, 1, p - 1)>> \o split(SubSeq(text, p + 1, Len(text)), sep)

\* The binade of a/10: the greatest k from k on with 10 * 2^k <= a.
RECURSIVE Binade(_, _)
Binade(a, k) == IF 10 * 2^(k + 1) <= a THEN Binade(a, k + 1) ELSE k

\* The float a/10 for an int a >= 10^15, where it is not exact: the
\* quotient rounded to 53 bits, halves to even, as <<m, 2, e>> for
\* m * 2^e with 2^52 <= m < 2^53.
RoundedTenth(a) ==
    LET k == Binade(a, 0)
        num == IF k < 52 THEN a * 2^(52 - k) ELSE a
        den == IF k < 52 THEN 10 ELSE 10 * 2^(k - 52)
        q == num \div den
        rem == num % den
        m == IF 2 * rem > den \/ (2 * rem = den /\ q % 2 = 1) THEN q + 1 ELSE q
    IN IF m = 2^53 THEN <<2^52, 2, k - 51>> ELSE <<m, 2, k - 52>>

\* The float x/10 for an int x.  Below 10^15 two ints never give the same
\* float, and the float is written <<integer part, tenths digit>>, both
\* with the sign of x; from 10^15 on it is the rounded float, with the
\* sign of x on m.
DivTen(x) ==
    LET a == IF x >= 0 THEN x ELSE 0 - x
    IN IF a \div 1000000 < 1000000000
       THEN IF x >= 0 THEN <<a \div 10, a % 10>>
            ELSE <<0 - (a \div 10), 0 - (a % 10)>>
       ELSE IF x >= 0 THEN RoundedTenth(a)
            ELSE <<0 - RoundedTenth(a)[1], 2, RoundedTenth(a)[3]>>

(***************************************************************************)
(* XML documents.  A document is well-formed or not; a well-formed one     *)
(* has a root whose children are looked up by tag.  An element that is     *)
(* present with no text has text None, as in ElementTree.                  *)
(***************************************************************************)
Tags == {"host_name", "hardware_version", "serial_number", "hasUPS",
         "voltage_value", "current_value", "power_value", "cloud_status",
         "outlet_name", "outlet_status"}

NoElement == [present |-> FALSE, text |-> None]
Element(text) == [present |-> TRUE, text |-> text]

\* root.find(name): the element, NoElement standing for Python's None.
find(root, name) == root[name]

\* _t(root, name)
_t(root, name) ==
    LET e == find(root, name)
    IN IF ~e.present THEN None ELSE e.text

\* The exception int(e.text) raises inside _i, "none" if it raises none.
_i_raises(root, name) ==
    LET e == find(root, name)
    IN IF ~e.present THEN "none"
       ELSE IF e.text = None THEN "TypeError"
       ELSE IF ~IsNumeral(e.text) THEN "ValueError"
       ELSE IF DivTenOverflows(e.text) THEN "OverflowError"
       ELSE "none"

\* _i(root, name), where it raises nothing.
_i(root, name) ==
    LET e == find(root, name)
    IN IF ~e.present THEN None ELSE DivTen(int(e.text))

(***************************************************************************)
(* The WattBox object as a record, for the operators that compute what a   *)
(* method leaves behind.                                                   *)
(***************************************************************************)
Self ==
    [noop_set_state |-> noop_set_state, hostname |-> hostname,
     hardware_version |-> hardware_version, serial_number |-> serial_number,
     has_ups |-> has_ups, voltage |-> voltage, current |-> current,
     power |-> power, cloud_status |-> cloud_status,
     last_updated |-> last_updated, switches |-> switches]

\* WattBox.__init__
NewWattBox(noop) ==
    [noop_set_state |-> noop, hostname |-> None, hardware_version |-> None,
     serial_number |-> None, has_ups |-> PyFalse, voltage |-> None,
     current |-> None, power |-> None, cloud_status |-> None,
     last_updated |-> None, switches |-> <<>>]

\* Switch.__init__: the name is '{n} [{num}]'.
Switch(offset, name, on) ==
    [outlet_num |-> offset + 1,
     name |-> name \o <<" ", "[">> \o str(offset + 1) \o <<"]">>,
     on |-> on]

(***************************************************************************)
(* What a method leaves behind: the object, the exception that left the    *)
(* method ("none" for a normal return), what happened to the GET it sent   *)
(* ("none" if it sent none), and for observation the outlet_status values  *)
(* and the number of outlet_name values it split off (<<>> and 0 if it     *)
(* did not get that far).                                                  *)
(***************************************************************************)
Outcome(self, error, get, vals, nnames) ==
    [self |-> self, error |-> error, get |-> get, vals |-> vals, nnames |-> nnames]

Min(a, b) == IF a < b THEN a ELSE b

\* WattBox.parse, lines 81-82: one Switch per pair of zip(names, status),
\* appended to the list.
parse_append(self, outlet_names, outlet_status) ==
    [self EXCEPT !.switches =
        self.switches \o
        [i \in 1..Min(Len(outlet_names), Len(outlet_status)) |->
            Switch(i - 1, outlet_names[i], outlet_status[i] = <<"1">>)]]

\* WattBox.parse, lines 71-78: the n-th of the eight assignments, for a
\* root whose numbers are numerals.
parse_field(self, root, n) ==
    CASE n = 1 -> [self EXCEPT !.hostname = _t(root, "host_name")]
      [] n = 2 -> [self EXCEPT !.hardware_version = _t(root, "hardware_version")]
      [] n = 3 -> [self EXCEPT !.serial_number = _t(root, "serial_number")]
      [] n = 4 -> [self EXCEPT !.has_ups = _t(root, "hasUPS")]
      [] n = 5 -> [self EXCEPT !.voltage = _i(root, "voltage_value")]
      [] n = 6 -> [self EXCEPT !.current = _i(root, "current_value")]
      [] n = 7 -> [self EXCEPT !.power = _i(root, "power_value")]
      [] n = 8 -> [self EXCEPT !.cloud_status =
                                  PyBool(_t(root, "cloud_status") = <<"1">>)]

\* How many fields parse assigns before it splits the lists.
ParseFields == 8

\* A faulty loop body that appends the first pair only.
parse_append_first_only(self, i, outlet_names, outlet_status) ==
    IF i = 0
    THEN [self EXCEPT !.switches =
             Append(self.switches,
                    Switch(i, outlet_names[i + 1], outlet_status[i + 1] = <<"1">>))]
    ELSE self

\* WattBox.parse, line 82: one pass of the loop, i the index enumerate
\* gives.
parse_append_one(self, i, outlet_names, outlet_status) ==
    [self EXCEPT !.switches =
        Append(self.switches,
               Switch(i, outlet_names[i + 1], outlet_status[i + 1] = <<"1">>))]

\* WattBox.parse, lines 79-83.
parse_outlets(self, root) ==
    IF _t(root, "outlet_name") = None
    THEN Outcome(self, "AttributeError", "ok", <<>>, 0)
    ELSE LET outlet_names == split(_t(root, "outlet_name"), ",")
         IN IF _t(root, "outlet_status") = None
            THEN Outcome(self, "AttributeError", "ok", <<>>, Len(outlet_names))
            ELSE LET outlet_status == split(_t(root, "outlet_status"), ",")
                 IN Outcome(parse_append(self, outlet_names, outlet_status),
                            "none", "ok", outlet_status, Len(outlet_names))

\* WattBox.parse: the fields are assigned one by one, so an exception
\* leaves the ones before it assigned.
parse(self, xml_str) ==
    IF ~xml_str.wellformed THEN Outcome(self, "ParseError", "ok", <<>>, 0)
    ELSE
    LET root == xml_str.root
        s4 == [self EXCEPT !.hostname = _t(root, "host_name"),
                           !.hardware_version = _t(root, "hardware_version"),
                           !.serial_number = _t(root, "serial_number"),
                           !.has_ups = _t(root, "hasUPS")]
    IN IF _i_raises(root, "voltage_value") # "none"
       THEN Outcome(s4, _i_raises(root, "voltage_value"), "ok", <<>>, 0)
       ELSE
    LET s5 == [s4 EXCEPT !.voltage = _i(root, "voltage_value")]
    IN IF _i_raises(root, "current_value") # "none"
       THEN Outcome(s5, _i_raises(root, "current_value"), "ok", <<>>, 0)
       ELSE
    LET s6 == [s5 EXCEPT !.current = _i(root, "current_value")]
    IN IF _i_raises(root, "power_value") # "none"
       THEN Outcome(s6, _i_raises(root, "power_value"), "ok", <<>>, 0)
       ELSE
    LET s8 == [s6 EXCEPT !.power = _i(root, "power_value"),
                         !.cloud_status =
                             PyBool(_t(root, "cloud_status") = <<"1">>)]
    IN parse_outlets(s8, root)

\* A faulty load_xml that empties the list of switches before the request,
\* so that a ConnectionError leaves the object changed.
load_xml_resets_first(self, response, now) ==
    IF ~response.connected
    THEN Outcome([self EXCEPT !.switches = <<>>], "ConnectionError",
                 "ConnectionError", <<>>, 0)
    ELSE LET r == parse([self EXCEPT !.switches = <<>>], response.text)
         IN IF r.error # "none" THEN r
            ELSE [r EXCEPT !.self.last_updated = <<now>>]

\* A faulty load_xml that does not set _last_updated.
load_xml_no_timestamp(self, response, now) ==
    IF ~response.connected
    THEN Outcome(self, "ConnectionError", "ConnectionError", <<>>, 0)
    ELSE parse(self, response.text)

\* WattBox.load_xml: response is what requests.get gives, now is the clock.
load_xml(self, response, now) ==
    IF ~response.connected
    THEN Outcome(self, "ConnectionError", "ConnectionError", <<>>, 0)
    ELSE LET r == parse(self, response.text)
         IN IF r.error # "none" THEN r
            ELSE [r EXCEPT !.self.last_updated = <<now>>]

\* A faulty loop that makes new Switch objects from the values instead of
\* assigning to the ones there are.
update_assign_rebuilds(self, vals) ==
    [self EXCEPT !.switches =
        [i \in 1..Len(self.switches) |-> Switch(i - 1, <<"a">>, vals[i] = <<"1">>)]]

\* A faulty loop that reads the first value for every switch.
update_assign_first(self, vals) ==
    [self EXCEPT !.switches =
        [i \in 1..Len(self.switches) |->
            [self.switches[i] EXCEPT !.on = (vals[1] = <<"1">>)]]]

\* WattBox._update, line 174: one pass of the loop, i the index enumerate
\* gives.
update_assign_one(self, i, val) ==
    [self EXCEPT !.switches[i + 1].on = (val = <<"1">>)]

\* WattBox._update, lines 172-174: each switch's _on from the value at its
\* position.
update_assign(self, vals) ==
    [self EXCEPT !.switches =
        [i \in 1..Len(self.switches) |->
            [self.switches[i] EXCEPT !.on = (vals[i] = <<"1">>)]]]

\* A faulty reconciliation without the length test: it assigns the values
\* there are switches for.
update_reconcile_partial(self, xml_str, now, get) ==
    IF xml_str.isNone THEN Outcome(self, "TypeError", get, <<>>, 0)
    ELSE IF ~xml_str.wellformed THEN Outcome(self, "ParseError", get, <<>>, 0)
    ELSE IF _t(xml_str.root, "outlet_status") = None
    THEN Outcome(self, "AttributeError", get, <<>>, 0)
    ELSE LET vals == split(_t(xml_str.root, "outlet_status"), ",")
             some == [self EXCEPT !.switches =
                         [i \in 1..Len(self.switches) |->
                             IF i <= Len(vals)
                             THEN [self.switches[i] EXCEPT !.on = (vals[i] = <<"1">>)]
                             ELSE self.switches[i]]]
         IN IF Len(vals) > Len(self.switches)
            THEN Outcome(some, "IndexError", get, vals, 0)
            ELSE Outcome([some EXCEPT !.last_updated = <<now>>], "none", get, vals, 0)

\* WattBox._update, lines 167-175: xml_str is the text to reconcile from
\* (isNone when none was given and none was fetched), get what happened
\* to the GET before it.
update_reconcile(self, xml_str, now, get) ==
    IF xml_str.isNone THEN Outcome(self, "TypeError", get, <<>>, 0)
    ELSE IF ~xml_str.wellformed THEN Outcome(self, "ParseError", get, <<>>, 0)
    ELSE IF _t(xml_str.root, "outlet_status") = None
    THEN Outcome(self, "AttributeError", get, <<>>, 0)
    ELSE LET vals == split(_t(xml_str.root, "outlet_status"), ",")
         IN IF Len(vals) # Len(self.switches)
            THEN Outcome(self, "Exception", get, vals, 0)
            ELSE Outcome([update_assign(self, vals) EXCEPT !.last_updated = <<now>>],
                         "none", get, vals, 0)

\* A faulty debounce test, the comparison turned around.
update_debounced_inverted(self, now) == now - self.last_updated[1] > DebounceSeconds

\* The debounce test of WattBox._update, line 156.
update_debounced(self, now) == now - self.last_updated[1] < DebounceSeconds

\* Whether WattBox._update() with no text gets as far as requests.get.
update_sends(self, now) ==
    /\ self.last_updated # None
    /\ ~update_debounced(self, now)
    /\ ~self.noop_set_state

\* A faulty _update that makes the debounce test before it looks whether
\* a text was given.
update_debounces_text(self, xml_str, response, now) ==
    IF self.last_updated # None /\ update_debounced(self, now)
    THEN Outcome(self, "none", "none", <<>>, 0)
    ELSE IF xml_str.isNone
    THEN IF self.last_updated = None
         THEN Outcome(self, "TypeError", "none", <<>>, 0)
         ELSE IF ~self.noop_set_state
         THEN IF ~response.connected
              THEN Outcome(self, "ConnectionError", "ConnectionError", <<>>, 0)
              ELSE update_reconcile(self, response.text, now, "ok")
         ELSE update_reconcile(self, xml_str, now, "none")
    ELSE update_reconcile(self, xml_str, now, "none")

\* WattBox._update(xml_str): response is what requests.get gives if the
\* method gets to call it, now is the clock.
update(self, xml_str, response, now) ==
    IF xml_str.isNone
    THEN IF self.last_updated = None
         THEN Outcome(self, "TypeError", "none", <<>>, 0)
         ELSE IF update_debounced(self, now)
         THEN Outcome(self, "none", "none", <<>>, 0)
         ELSE IF ~self.noop_set_state
         THEN IF ~response.connected
              THEN Outcome(self, "ConnectionError", "ConnectionError", <<>>, 0)
              ELSE update_reconcile(self, response.text, now, "ok")
         ELSE update_reconcile(self, xml_str, now, "none")
    ELSE update_reconcile(self, xml_str, now, "none")

\* Switch.set_state, line 237, for the switch at position k of the list.
set_on(self, k, turn_on) == [self EXCEPT !.switches[k].on = turn_on]

\* A faulty set_state that sets _on although the reconciliation raised.
set_state_on_error(self, k, turn_on, response, now) ==
    IF ~self.noop_set_state
    THEN IF ~response.connected
         THEN Outcome(self, "none", "ConnectionError", <<>>, 0)
         ELSE LET r == update(self, response.text, response, now)
              IN IF r.error # "none"
                 THEN [r EXCEPT !.get = "ok", !.self = set_on(r.self, k, turn_on)]
                 ELSE Outcome(set_on(r.self, k, turn_on), "none", "ok", r.vals, 0)
    ELSE Outcome(set_on(self, k, turn_on), "UnboundLocalError", "none", <<>>, 0)

\* A faulty set_state that sets _on although the GET failed.
set_state_on_failure(self, k, turn_on, response, now) ==
    IF ~self.noop_set_state
    THEN IF ~response.connected
         THEN Outcome(set_on(self, k, turn_on), "none", "ConnectionError", <<>>, 0)
         ELSE LET r == update(self, response.text, response, now)
              IN IF r.error # "none" THEN [r EXCEPT !.get = "ok"]
                 ELSE Outcome(set_on(r.self, k, turn_on), "none", "ok", r.vals, 0)
    ELSE Outcome(set_on(self, k, turn_on), "UnboundLocalError", "none", <<>>, 0)

\* A faulty set_state that keeps what the device answered instead of
\* setting _on to turn_on.
set_state_trusts_device(self, k, turn_on, response, now) ==
    IF ~self.noop_set_state
    THEN IF ~response.connected
         THEN Outcome(self, "none", "ConnectionError", <<>>, 0)
         ELSE LET r == update(self, response.text, response, now)
              IN IF r.error # "none" THEN [r EXCEPT !.get = "ok"]
                 ELSE Outcome(r.self, "none", "ok", r.vals, 0)
    ELSE Outcome(set_on(self, k, turn_on), "UnboundLocalError", "none", <<>>, 0)

\* A faulty set_state that does not look at noop_set_state before the GET.
set_state_always_sends(self, k, turn_on, response, now) ==
    IF ~response.connected
    THEN Outcome(self, "none", "ConnectionError", <<>>, 0)
    ELSE LET r == update(self, response.text, response, now)
         IN IF r.error # "none" THEN [r EXCEPT !.get = "ok"]
            ELSE Outcome(set_on(r.self, k, turn_on), "none", "ok", r.vals, 0)

\* Switch.set_state for the switch at position k of the list (Switch._update
\* passes the response text on to WattBox._update).  The last line reads
\* response, which is unbound when no request was made.
set_state(self, k, turn_on, response, now) ==
    IF ~self.noop_set_state
    THEN IF ~response.connected
         THEN Outcome(self, "none", "ConnectionError", <<>>, 0)
         ELSE LET r == update(self, response.text, response, now)
              IN IF r.error # "none" THEN [r EXCEPT !.get = "ok"]
                 ELSE Outcome(set_on(r.self, k, turn_on), "none", "ok", r.vals, 0)
    ELSE Outcome(set_on(self, k, turn_on), "UnboundLocalError", "none", <<>>, 0)

\* A faulty setter that also switches the outlet off.
set_name_resets_on(self, k, value) ==
    [self EXCEPT !.switches[k].name = value, !.switches[k].on = FALSE]

\* The setter of Switch.name, for the switch at position k of the list.
set_name(self, k, value) == [self EXCEPT !.switches[k].name = value]

(***************************************************************************)
(* The inputs: the documents the device may answer with.                   *)
(***************************************************************************)
RECURSIVE Join(_, _)
Join(tokens, sep) ==
    IF Len(tokens) = 0 THEN <<>>
    ELSE IF Len(tokens) = 1 THEN tokens[1]
    ELSE tokens[1] \o <<sep>> \o Join(Tail(tokens), sep)

EmptyRoot == [t \in Tags |-> NoElement]

Meta1 ==
    [EmptyRoot EXCEPT !["host_name"] = Element(<<"h">>),
                      !["hardware_version"] = Element(<<"v">>),
                      !["serial_number"] = Element(<<"s">>),
                      !["hasUPS"] = Element(<<"1">>),
                      !["voltage_value"] = Element(<<"1", "2", "0", "0">>),
                      !["current_value"] = Element(<<"1", "0", "5">>),
                      !["power_value"] = Element(<<"6", "0", "0">>),
                      !["cloud_status"] = Element(<<"1">>)]

\* Another device: some elements missing or empty, a voltage_value with
\* white space, sign and underscore, and a current_value that is no
\* numeral.
Meta2 ==
    [EmptyRoot EXCEPT !["host_name"] = Element(<<"g">>),
                      !["serial_number"] = Element(None),
                      !["hasUPS"] = Element(<<"0">>),
                      !["voltage_value"] = Element(<<" ", "-", "1", "_", "1", "8", "5", "\n">>),
                      !["current_value"] = Element(<<"1", "x">>),
                      !["power_value"] = Element(<<"0">>),
                      !["cloud_status"] = Element(<<"0">>)]

\* outlet_name of one and of two outlets, missing and empty.
NameElements ==
    {NoElement, Element(None), Element(Join(<<<<"a">>>>, ",")),
     Element(Join(<<<<"a">>, <<"b">>>>, ","))}

\* outlet_status of one and of two outlets, missing and empty.
StatusElements ==
    {NoElement, Element(None), Element(Join(<<<<"0">>>>, ",")),
     Element(Join(<<<<"1">>>>, ",")), Element(Join(<<<<"0">>, <<"1">>>>, ",")),
     Element(Join(<<<<"1">>, <<"0">>>>, ","))}

Document(meta, names, status) ==
    [isNone |-> FALSE, wellformed |-> TRUE,
     root |-> [meta EXCEPT !["outlet_name"] = names, !["outlet_status"] = status]]

Malformed == [isNone |-> FALSE, wellformed |-> FALSE, root |-> EmptyRoot]

\* xml_str=None
NoneStr == [isNone |-> TRUE, wellformed |-> FALSE, root |-> EmptyRoot]

StatusDocuments ==
    {Malformed, Document(Meta2, Element(<<"a">>), Element(<<"1">>))} \cup
    {Document(Meta1, n, s) : n \in NameElements, s \in StatusElements}

\* The texts a client gives to parse: no document, one that raises half
\* way, and the documents of one and of two outlets.
ParseDocuments ==
    {Malformed,
     Document(Meta2, Element(<<"a">>), Element(<<"1">>)),
     Document(Meta1, Element(<<"a">>), Element(<<"1">>)),
     Document(Meta1, Element(Join(<<<<"a">>, <<"b">>>>, ",")),
                     Element(Join(<<<<"0">>, <<"1">>>>, ",")))}

\* The documents of a device with one outlet.
OneOutletDocuments ==
    {Malformed} \cup
    {Document(Meta1, Element(<<"a">>), s) : s \in {Element(<<"0">>), Element(<<"1">>)}}

ControlBodies ==
    {Malformed} \cup {Document(EmptyRoot, NoElement, s) : s \in StatusElements}

\* requests.get: a response with a text, or a ConnectionError.
ConnectionFailed == [connected |-> FALSE, text |-> NoneStr]

Responses(texts) ==
    {ConnectionFailed} \cup {[connected |-> TRUE, text |-> t] : t \in texts}

RenameValues == {<<"r">>}

(***************************************************************************)
(* The state machine.                                                      *)
(***************************************************************************)
Assign(self) ==
    /\ noop_set_state' = self.noop_set_state
    /\ hostname' = self.hostname
    /\ hardware_version' = self.hardware_version
    /\ serial_number' = self.serial_number
    /\ has_ups' = self.has_ups
    /\ voltage' = self.voltage
    /\ current' = self.current
    /\ power' = self.power
    /\ cloud_status' = self.cloud_status
    /\ last_updated' = self.last_updated
    /\ switches' = self.switches

\* The observation of a call: what it was, and from its outcome the GET,
\* the exception, how many outlet_name and outlet_status values it split
\* off, and the outlet_status values when it raised nothing.
Call(op, k, turn_on, given, r) ==
    [op |-> op, k |-> k, turn_on |-> turn_on, given |-> given,
     get |-> r.get, error |-> r.error, nnames |-> r.nnames,
     nvals |-> Len(r.vals), vals |-> IF r.error = "none" THEN r.vals ELSE <<>>]

NoCall(op) ==
    [op |-> op, k |-> 0, turn_on |-> FALSE, given |-> FALSE,
     get |-> "none", error |-> "none", nnames |-> 0, nvals |-> 0, vals |-> <<>>]

\* The threads that call _update(xml_str) and set_state; running[c] is <<>>
\* when c is in no call.
Callers == {"A", "B"}

\* A new WattBox, no call made and none in progress.
InitObject ==
    /\ \E noop \in BOOLEAN : 
          /\ noop_set_state = noop
          /\ hostname = NewWattBox(noop).hostname
          /\ hardware_version = NewWattBox(noop).hardware_version
          /\ serial_number = NewWattBox(noop).serial_number
          /\ has_ups = NewWattBox(noop).has_ups
          /\ voltage = NewWattBox(noop).voltage
          /\ current = NewWattBox(noop).current
          /\ power = NewWattBox(noop).power
          /\ cloud_status = NewWattBox(noop).cloud_status
          /\ last_updated = NewWattBox(noop).last_updated
          /\ switches = NewWattBox(noop).switches
    /\ clock = 0
    /\ last = NoCall("init")
    /\ lastPoll = <<>>
    /\ loading = <<>>
    /\ running = [c \in Callers |-> <<>>]

\* Every action of Spec and SpecClock is a whole call.
Init == InitObject /\ serialized = TRUE

\* Time passes: the next reading of mktime(localtime()) is one second later.
Tick ==
    /\ clock < MaxClock
    /\ clock' = clock + 1
    /\ last' = NoCall("tick")
    /\ UNCHANGED <<noop_set_state, hostname, hardware_version, serial_number,
                   has_ups, voltage, current, power, cloud_status, last_updated,
                   switches, lastPoll, loading, running, serialized>>

\* W.load_xml(), the device answering with one of documents.
LoadXmlFrom(documents) ==
    \E response \in Responses(documents) :
        LET r == load_xml(Self, response, clock)
        IN /\ Len(r.self.switches) <= MaxSwitches
           /\ Assign(r.self)
           /\ last' = Call("load_xml", 0, FALSE, FALSE, r)
           /\ UNCHANGED <<clock, lastPoll, loading, running, serialized>>

\* W.parse(xml_str), called by the client: no GET, _last_updated as it was.
ParseFrom(documents) ==
    \E xml_str \in documents :
        LET r == parse(Self, xml_str)
        IN /\ Len(r.self.switches) <= MaxSwitches
           /\ Assign(r.self)
           /\ last' = [Call("parse", 0, FALSE, TRUE, r) EXCEPT !.get = "none"]
           /\ UNCHANGED <<clock, lastPoll, loading, running, serialized>>

\* W._update(): no text given.
UpdateNoBody ==
    \E response \in IF update_sends(Self, clock) THEN Responses(ControlBodies)
                     ELSE {ConnectionFailed} :
        LET r == update(Self, NoneStr, response, clock)
        IN /\ Assign(r.self)
           /\ last' = Call("update", 0, FALSE, FALSE, r)
           /\ lastPoll' = IF r.get = "none" THEN lastPoll
                          ELSE <<[now |-> clock, ok |-> r.error = "none"]>>
           /\ UNCHANGED <<clock, loading, running, serialized>>

\* W._update(xml_str)
UpdateBody ==
    \E xml_str \in ControlBodies :
        LET r == update(Self, xml_str, ConnectionFailed, clock)
        IN /\ Assign(r.self)
           /\ last' = Call("update", 0, FALSE, TRUE, r)
           /\ UNCHANGED <<clock, lastPoll, loading, running, serialized>>

\* W.switches[k-1].set_state(turn_on)
SetState ==
    \E k \in 1..Len(switches), turn_on \in BOOLEAN,
       response \in IF noop_set_state THEN {ConnectionFailed}
                     ELSE Responses(ControlBodies) :
        LET r == set_state(Self, k, turn_on, response, clock)
        IN /\ Assign(r.self)
           /\ last' = Call("set_state", k, turn_on, TRUE, r)
           /\ UNCHANGED <<clock, lastPoll, loading, running, serialized>>

\* W.switches[k-1].name = value
Rename ==
    \E k \in 1..Len(switches), value \in RenameValues :
        /\ Assign(set_name(Self, k, value))
        /\ last' = [NoCall("rename") EXCEPT !.k = k]
        /\ UNCHANGED <<clock, lastPoll, loading, running, serialized>>

(***************************************************************************)
(* Spec: every call, with every document, all within one reading of the   *)
(* clock.                                                                  *)
(***************************************************************************)
LoadXml == LoadXmlFrom(StatusDocuments)

Parse == ParseFrom(ParseDocuments)

Next == LoadXml \/ Parse \/ UpdateNoBody \/ UpdateBody \/ SetState \/ Rename

Spec == Init /\ [][Next]_vars

(***************************************************************************)
(* SpecClock: the calls as time passes, the device listing one outlet.     *)
(***************************************************************************)
LoadXmlOne == LoadXmlFrom(OneOutletDocuments)

ParseOne == ParseFrom(OneOutletDocuments)

NextClock == Tick \/ LoadXmlOne \/ ParseOne \/ UpdateNoBody \/ UpdateBody \/ SetState

SpecClock == Init /\ [][NextClock]_vars

(***************************************************************************)
(* SpecRace: load_xml step by step, the device listing two outlets, with   *)
(* callers that may start _update(xml_str) and set_state between the steps *)
(* unless they are serialized.                                             *)
(***************************************************************************)
RaceDocuments ==
    {Document(Meta1, Element(Join(<<<<"a">>, <<"b">>>>, ",")), s) :
        s \in {Element(Join(<<<<"0">>, <<"1">>>>, ",")),
               Element(Join(<<<<"1">>, <<"0">>>>, ","))}}

\* How many outlets every one of RaceDocuments lists.
RaceOutlets == Len(split(<<"a", ",", "b">>, ","))

InitRace == InitObject /\ serialized \in BOOLEAN

\* Serialized callers start no call while another is in progress.
MayStart == serialized => (loading = <<>> /\ \A c \in Callers : running[c] = <<>>)

\* load_xml up to the first assignment of parse: the GET answered, the
\* text parsed by ET.fromstring.  Nothing of the object is written yet.
LoadBegin ==
    /\ MayStart
    /\ loading = <<>>
    /\ Len(switches) + RaceOutlets <= MaxSwitches
    /\ \E xml_str \in RaceDocuments :
           loading' = <<[root |-> xml_str.root, fields |-> 0, i |-> 0]>>
    /\ last' = NoCall("loading")
    /\ UNCHANGED <<noop_set_state, hostname, hardware_version, serial_number,
                   has_ups, voltage, current, power, cloud_status, last_updated,
                   switches, clock, lastPoll, running, serialized>>

\* The next of the assignments of lines 71-78.
LoadField ==
    /\ loading # <<>>
    /\ loading[1].fields < ParseFields
    /\ Assign(parse_field(Self, loading[1].root, loading[1].fields + 1))
    /\ loading' = <<[loading[1] EXCEPT !.fields = @ + 1]>>
    /\ last' = NoCall("loading")
    /\ UNCHANGED <<clock, lastPoll, running, serialized>>

\* Lines 79-80, which write nothing of the object: the two lists of the
\* document in progress.
OutletNames == split(_t(loading[1].root, "outlet_name"), ",")

OutletStatus == split(_t(loading[1].root, "outlet_status"), ",")

\* One pass of the loop of parse.
LoadAppend ==
    /\ loading # <<>>
    /\ loading[1].fields = ParseFields
    /\ loading[1].i < Min(Len(OutletNames), Len(OutletStatus))
    /\ Assign(parse_append_one(Self, loading[1].i, OutletNames, OutletStatus))
    /\ loading' = <<[loading[1] EXCEPT !.i = @ + 1]>>
    /\ last' = NoCall("loading")
    /\ UNCHANGED <<clock, lastPoll, running, serialized>>

\* The loop of parse is over: load_xml sets _last_updated and returns.
LoadEnd ==
    /\ loading # <<>>
    /\ loading[1].fields = ParseFields
    /\ loading[1].i = Min(Len(OutletNames), Len(OutletStatus))
    /\ Assign([Self EXCEPT !.last_updated = <<clock>>])
    /\ loading' = <<>>
    /\ last' = [NoCall("load_xml") EXCEPT !.get = "ok",
                                         !.nnames = Len(OutletNames),
                                         !.nvals = Len(OutletStatus)]
    /\ UNCHANGED <<clock, lastPoll, running, serialized>>

\* A call that has passed the length test of _update and is in or after
\* its loop: i passes made, now the clock read at line 153, and for
\* set_state whether the loop is over and line 237 is next.
Caller(op, k, turn_on, vals, now) ==
    [op |-> op, k |-> k, turn_on |-> turn_on, vals |-> vals, i |-> 0,
     now |-> now, override |-> FALSE]

\* The step of a caller, as an observation.
Step(c) == [NoCall(c.op) EXCEPT !.k = c.k, !.turn_on = c.turn_on, !.given = TRUE]

\* W._update(xml_str) up to its loop: the text parsed and split, the length
\* test made.
UpdateStart ==
    /\ MayStart
    /\ \E c \in Callers, xml_str \in ControlBodies :
        LET r == update_reconcile(Self, xml_str, clock, "none")
        IN /\ running[c] = <<>>
           /\ running' = IF r.error # "none" THEN running
                          ELSE [running EXCEPT
                                   ![c] = <<Caller("update", 0, FALSE, r.vals, clock)>>]
           /\ last' = Call("update", 0, FALSE, TRUE, r)
    /\ UNCHANGED <<noop_set_state, hostname, hardware_version, serial_number,
                   has_ups, voltage, current, power, cloud_status, last_updated,
                   switches, clock, lastPoll, loading, serialized>>

\* W.switches[k-1].set_state(turn_on) up to the loop of _update; the whole
\* call when it sends nothing or its GET fails.
SetStateStart ==
    /\ MayStart
    /\ \E c \in Callers, k \in 1..Len(switches), turn_on \in BOOLEAN,
          response \in IF noop_set_state THEN {ConnectionFailed}
                        ELSE Responses(ControlBodies) :
        LET whole == set_state(Self, k, turn_on, response, clock)
            r == update_reconcile(Self, response.text, clock, "ok")
        IN /\ running[c] = <<>>
           /\ IF noop_set_state \/ ~response.connected
              THEN /\ Assign(whole.self)
                   /\ last' = Call("set_state", k, turn_on, TRUE, whole)
                   /\ running' = running
              ELSE /\ Assign(Self)
                   /\ last' = Call("set_state", k, turn_on, TRUE, r)
                   /\ running' = IF r.error # "none" THEN running
                                  ELSE [running EXCEPT
                                           ![c] = <<Caller("set_state", k, turn_on,
                                                           r.vals, clock)>>]
    /\ UNCHANGED <<clock, lastPoll, loading, serialized>>

\* One pass of the loop of _update, for one of the callers.
ReconcilePass ==
    \E c \in Callers :
        /\ running[c] # <<>>
        /\ ~running[c][1].override
        /\ running[c][1].i < Len(running[c][1].vals)
        /\ Assign(update_assign_one(Self, running[c][1].i,
                                    running[c][1].vals[running[c][1].i + 1]))
        /\ running' = [running EXCEPT ![c][1].i = @ + 1]
        /\ last' = Step(running[c][1])
        /\ UNCHANGED <<clock, lastPoll, loading, serialized>>

\* The loop of _update is over: _last_updated is set; _update returns, or
\* set_state goes on to its own assignment.
ReconcileEnd ==
    \E c \in Callers :
        /\ running[c] # <<>>
        /\ ~running[c][1].override
        /\ running[c][1].i = Len(running[c][1].vals)
        /\ Assign([Self EXCEPT !.last_updated = <<running[c][1].now>>])
        /\ running' = IF running[c][1].op = "update" THEN [running EXCEPT ![c] = <<>>]
                       ELSE [running EXCEPT ![c][1].override = TRUE]
        /\ last' = Step(running[c][1])
        /\ UNCHANGED <<clock, lastPoll, loading, serialized>>

\* set_state, line 237, and its return.
SetStateOverride ==
    \E c \in Callers :
        /\ running[c] # <<>>
        /\ running[c][1].override
        /\ Assign(set_on(Self, running[c][1].k, running[c][1].turn_on))
        /\ running' = [running EXCEPT ![c] = <<>>]
        /\ last' = Step(running[c][1])
        /\ UNCHANGED <<clock, lastPoll, loading, serialized>>

NextRace ==
    \/ LoadBegin \/ LoadField \/ LoadAppend \/ LoadEnd
    \/ UpdateStart \/ SetStateStart
    \/ ReconcilePass \/ ReconcileEnd \/ SetStateOverride

SpecRace == InitRace /\ [][NextRace]_vars

(***************************************************************************)
(* Properties.                                                             *)
(***************************************************************************)
Scalars == <<hostname, hardware_version, serial_number, has_ups, voltage,
             current, power, cloud_status>>

\* C1: a set_state whose GET fails with a ConnectionError returns without
\* raising, and every switch's _on and _last_updated stay as they were.
C1_SendFailureKeepsState ==
    [][(last'.op = "set_state" /\ last'.get = "ConnectionError")
        => (/\ last'.error = "none"
            /\ switches' = switches
            /\ last_updated' = last_updated)]_vars

\* A set_state that asked for the other state and whose GET failed.
C1_Witness ==
    /\ last.op = "set_state"
    /\ last.get = "ConnectionError"
    /\ switches[last.k].on # last.turn_on

\* C2: when the GET of set_state succeeds and the response lists as many
\* outlet_status values as there are switches, set_state returns and the
\* switch's _on is turn_on, whatever the response said at its position.
C2_OverrideWins ==
    (last.op = "set_state" /\ last.get = "ok" /\ last.nvals = Len(switches))
        => (last.error = "none" /\ switches[last.k].on = last.turn_on)

\* A set_state whose response reported the other state for the switch.
C2_Witness ==
    /\ last.op = "set_state"
    /\ last.get = "ok"
    /\ last.error = "none"
    /\ last.nvals = Len(switches)
    /\ (last.vals[last.k] = <<"1">>) # last.turn_on
    /\ switches[last.k].on = last.turn_on

\* C3: with noop_set_state, set_state sends no request and sets the
\* switch's _on to turn_on; no other switch and no field of the WattBox
\* changes.
C3_NoopSetsLocally ==
    [][(last'.op = "set_state" /\ noop_set_state)
        => (/\ last'.get = "none"
            /\ switches' = [switches EXCEPT ![last'.k].on = last'.turn_on]
            /\ UNCHANGED <<Scalars, last_updated, noop_set_state>>)]_vars

\* A noop set_state on one of two switches that are in different states.
C3_Witness ==
    /\ last.op = "set_state"
    /\ noop_set_state
    /\ last.get = "none"
    /\ Len(switches) = 2
    /\ switches[last.k].on = last.turn_on
    /\ switches[1].on # switches[2].on

\* C4: after a load_xml that succeeds on a document with N outlet_name and
\* N outlet_status values there are exactly N switches, numbered 1..N in
\* order, each _on as the value at its position says.
C4_LoadBuildsExactlyN ==
    (last.op = "load_xml" /\ last.error = "none" /\ last.nnames = last.nvals)
        => IF Len(switches) # last.nvals THEN FALSE
           ELSE \A i \in 1..Len(switches) :
                    /\ switches[i].outlet_num = i
                    /\ switches[i].on = (last.vals[i] = <<"1">>)

\* C5: the switch at position i (from 0) of the list has outlet_num i+1.
C5_OutletNumIsPosition ==
    \A i \in 1..Len(switches) : switches[i].outlet_num = i

\* C6: a load_xml of a document whose outlet_name and outlet_status lists
\* differ in length raises, and the list of switches stays as it was.
C6_MismatchedLoadFails ==
    [][(last'.op = "load_xml" /\ last'.nnames > 0 /\ last'.nvals > 0
            /\ last'.nnames # last'.nvals)
        => (last'.error # "none" /\ switches' = switches)]_vars

\* C7: a load_xml whose GET fails with a ConnectionError raises it and
\* changes no field of the WattBox and no switch.
C7_LoadSendFailureKeepsState ==
    [][(last'.op = "load_xml" /\ last'.get = "ConnectionError")
        => (/\ last'.error = "ConnectionError"
            /\ UNCHANGED <<Scalars, switches, last_updated>>)]_vars

\* A load_xml whose GET failed, on a WattBox that was loaded before.
C7_Witness ==
    /\ last.op = "load_xml"
    /\ last.get = "ConnectionError"
    /\ switches # <<>>
    /\ last_updated # None

\* C8: a load_xml whose response does not parse raises and changes no
\* field of the WattBox and no switch.
C8_LoadParseFailureKeepsState ==
    [][(last'.op = "load_xml" /\ last'.get = "ok" /\ last'.error # "none")
        => UNCHANGED <<Scalars, switches, last_updated>>]_vars

\* A bodiless _update that sends a GET.
PollSent == last'.op = "update" /\ ~last'.given /\ last'.get # "none"

\* C9, as claimed: a bodiless _update sends no GET less than 3 seconds
\* after an earlier bodiless _update sent one, however that one ended.
C9_DebounceWhateverOutcome ==
    [][(PollSent /\ lastPoll # <<>>)
        => clock - lastPoll[1].now >= DebounceSeconds]_vars

\* C9, amended: a bodiless _update sends no GET when the clock reads less
\* than 3 seconds more than it read at an earlier bodiless _update that
\* sent one and reconciled the switches from the response.
C9_DebounceAfterSuccess ==
    [][(/\ last'.op = "update"
        /\ ~last'.given
        /\ lastPoll # <<>>
        /\ lastPoll[1].ok
        /\ clock - lastPoll[1].now < DebounceSeconds)
        => last'.get = "none"]_vars

\* A bodiless _update that returned without a GET, inside the window of
\* an earlier one that sent a GET and succeeded.
C9_Witness ==
    /\ last.op = "update"
    /\ ~last.given
    /\ last.get = "none"
    /\ last.error = "none"
    /\ ~noop_set_state
    /\ lastPoll # <<>>
    /\ lastPoll[1].ok
    /\ clock - lastPoll[1].now < DebounceSeconds

\* C10: an _update (called directly or by set_state) that splits off a
\* number of outlet_status values other than the number of switches raises
\* Exception, and every switch's _on and _last_updated stay as they were.
C10_LengthMismatchRaises ==
    [][(last'.op \in {"update", "set_state"} /\ last'.nvals > 0
            /\ last'.nvals # Len(switches))
        => (/\ last'.error = "Exception"
            /\ switches' = switches
            /\ last_updated' = last_updated)]_vars

\* An _update given fewer values than there are switches.
C10_Witness ==
    /\ last.op = "update"
    /\ last.error = "Exception"
    /\ last.nvals > 0
    /\ last.nvals < Len(switches)

\* What a step leaves of each switch but its _on.
Identity(sw) == [i \in 1..Len(sw) |-> <<sw[i].outlet_num, sw[i].name>>]

\* C11: _update and set_state change no scalar field of the WattBox, add,
\* remove or replace no switch and change no outlet_num and no name; only
\* load_xml, or its parse called by the client, changes how many switches
\* there are.
C11_RefreshFrame ==
    [][/\ (last'.op \in {"update", "set_state"})
            => (/\ UNCHANGED <<Scalars, noop_set_state>>
                /\ Identity(switches') = Identity(switches))
       /\ (Len(switches') # Len(switches)) => last'.op \in {"load_xml", "parse"}]_vars

\* A set_state that changed the state of a renamed switch and the time of
\* the last update.
C11_Witness ==
    /\ last.op = "set_state"
    /\ last.get = "ok"
    /\ last.error = "none"
    /\ Len(switches) = 2
    /\ switches[1].name = <<"r">>
    /\ hostname = <<"h">>

\* C12: setting a switch's name changes that name and nothing else: not its
\* outlet_num or _on, no other switch, no field of the WattBox; and it
\* sends no request.
C12_RenameFrame ==
    [][(last'.op = "rename")
        => (/\ switches' = [switches EXCEPT ![last'.k].name = switches'[last'.k].name]
            /\ UNCHANGED <<Scalars, noop_set_state, last_updated>>
            /\ last'.get = "none")]_vars

\* A rename of a switch that is on, the other one keeping its name.
C12_Witness ==
    /\ last.op = "rename"
    /\ Len(switches) = 2
    /\ switches[last.k].name = <<"r">>
    /\ switches[last.k].on
    /\ switches[3 - last.k].name # <<"r">>

\* C13: with noop_set_state, a bodiless _update outside the debounce window
\* sends no request, raises nothing and changes no switch's _on.
C13_NoopPollIsNoOp ==
    [][(/\ last'.op = "update"
        /\ ~last'.given
        /\ noop_set_state
        /\ last_updated # None
        /\ ~update_debounced(Self, clock))
        => (/\ last'.get = "none"
            /\ last'.error = "none"
            /\ switches' = switches)]_vars

\* C14: when the GET of set_state succeeds and the reconciliation raises
\* (the response does not parse, or lists another number of values than
\* there are switches), set_state raises and no switch's _on changes.
C14_FailedReconcileNoOverride ==
    [][(last'.op = "set_state" /\ last'.get = "ok" /\ last'.nvals # Len(switches))
        => (/\ last'.error # "none"
            /\ switches' = switches
            /\ last_updated' = last_updated)]_vars

\* A set_state that asked for the other state and whose response did not
\* reconcile.
C14_Witness ==
    /\ last.op = "set_state"
    /\ last.get = "ok"
    /\ last.error # "none"
    /\ switches[last.k].on # last.turn_on

\* C15: with noop_set_state, set_state returns without raising.
C15_NoopSetStateReturns ==
    (last.op = "set_state" /\ noop_set_state) => last.error = "none"

\* C16: after a set_state that succeeded with a GET, every other switch's
\* _on is what the response says at its position, the target's is turn_on,
\* and _last_updated is the time of the call.
C16_ReconcileThenOverride ==
    (last.op = "set_state" /\ last.get = "ok" /\ last.error = "none")
        => (/\ Len(last.vals) = Len(switches)
            /\ \A j \in 1..Len(switches) :
                   switches[j].on = IF j = last.k THEN last.turn_on
                                    ELSE (last.vals[j] = <<"1">>)
            /\ last_updated = <<clock>>)

\* A set_state on one of two switches, after the load, whose response
\* reports different states for the two and not turn_on for the target.
C16_Witness ==
    /\ last.op = "set_state"
    /\ last.get = "ok"
    /\ last.error = "none"
    /\ Len(switches) = 2
    /\ last.vals[1] # last.vals[2]
    /\ (last.vals[last.k] = <<"1">>) # last.turn_on
    /\ clock > 0

\* The _on of every switch as vals says, but turn_on at position k (k = 0:
\* at none).
Reconciled(sw, vals, k, turn_on) ==
    [j \in 1..Len(sw) |->
        [sw[j] EXCEPT !.on = IF j = k THEN turn_on ELSE (vals[j] = <<"1">>)]]

\* C17: an _update that is given a text, and so the one inside set_state,
\* reconciles from it also less than 3 seconds after _last_updated: it
\* succeeds when the text lists as many values as there are switches, and
\* it never returns without having reconciled.
C17_TextIsNotDebounced ==
    [][(/\ \/ last'.op = "update" /\ last'.given
           \/ last'.op = "set_state" /\ last'.get = "ok"
        /\ last_updated # None
        /\ update_debounced(Self, clock))
        => (/\ last'.nvals = Len(switches) => last'.error = "none"
            /\ \/ last'.error # "none" /\ switches' = switches
               \/ /\ last'.error = "none"
                  /\ last'.nvals = Len(switches)
                  /\ switches' = Reconciled(switches, last'.vals, last'.k, last'.turn_on)
                  /\ last_updated' = <<clock>>)]_vars

\* An _update with a text inside the window that changed a switch.
C17_Witness ==
    /\ last.op = "update"
    /\ last.given
    /\ last.error = "none"
    /\ clock > 0
    /\ clock < DebounceSeconds
    /\ last_updated = <<clock>>
    /\ Len(switches) = 2
    /\ switches[1].on # switches[2].on

\* C18: on a device that lists one outlet in every document there is one
\* switch after any number of successful loads, so that a reconciliation
\* from one outlet_status value passes the length test.
C18_LoadsKeepCount ==
    /\ (last.op = "load_xml" /\ last.error = "none") => Len(switches) = last.nvals
    /\ (last.op \in {"update", "set_state"} /\ last.nvals = 1 /\ switches # <<>>)
           => last.error # "Exception"

\* C20: a WattBox with switches has _last_updated set, in every state
\* reached by calls of load_xml, _update, set_state and the name setter:
\* it holds of the new WattBox, which has no switches, and each of these
\* calls keeps it.
C20_SwitchesImplyTimestamp ==
    [][(/\ last'.op \in {"load_xml", "update", "set_state", "rename"}
        /\ (switches # <<>> => last_updated # None))
        => (switches' # <<>> => last_updated' # None)]_vars

\* A bodiless _update on a loaded WattBox that got past the debounce test
\* and reconciled.
C20_Witness ==
    /\ last.op = "update"
    /\ ~last.given
    /\ last.get = "ok"
    /\ last.error = "none"
    /\ switches # <<>>

\* A reconciliation (_update with a text, or set_state) has just run on a
\* list of switches that is the part of a load: not a whole number of
\* loads of RaceOutlets switches each.
Torn ==
    /\ last.op \in {"update", "set_state"}
    /\ Len(switches) % RaceOutlets # 0

\* C19: callers that are not serialized can run a reconciliation on a
\* partly built list of switches (C19_Witness); serialized callers never
\* do.
C19_SerializedNeverTorn == serialized => ~Torn

\* Without serialization: a reconciliation during a load_xml that has
\* appended one of its two switches.
C19_Witness ==
    /\ ~serialized
    /\ Torn
    /\ loading # <<>>
    /\ loading[1].i = 1

=============================================================================
